---- MODULE Spec2Model ----
(***************************************************************************)
(* Model of the buffer manager of src/buf.C: the frame descriptor table,   *)
(* the page index (hash table), the clock hand, and the operations         *)
(* readPage, unPinPage, allocPage, disposePage and flushFile, each with    *)
(* the clock replacement policy allocBuf it calls.                         *)
(***************************************************************************)
EXTENDS Integers, Sequences, FiniteSets

\* ---------------------------------------------------------------- bounds
\* numBufs, the argument of the constructor
NumBufs == 3
\* number of File objects the callers use
NumFiles == 2
\* number of page numbers a File can hand out
NumPages == 2
\* number of calls of the public operations in one run
MaxCalls == 7
\* number of calls in one run that keeps the books held and debt
MaxCallsBook == 5
\* bound: calls in one run of SpecStale, the five that lead to InitStale
\* included
MaxCallsStale == 9

\* ------------------------------------------------------ program constants
\* the NULL File pointer
NULL == 0
\* pageNo of a cleared descriptor
NoPage == -1
\* "no frame": the value of an int that allocBuf / lookup did not set
NoFrame == -1

Frames == 0 .. (NumBufs - 1)
Files == 1 .. NumFiles
PageNos == 0 .. (NumPages - 1)
Keys == Files \X PageNos

VARIABLES bufTable, hashTable, clockHand, fileCalls, calls, last, held, debt

vars == <<bufTable, hashTable, clockHand, fileCalls, calls, last, held, debt>>

\* ------------------------------------------------------- frame descriptor
\* BufDesc after the constructor's memset and loop
InitDesc ==
  [file |-> NULL, pageNo |-> 0, pinCnt |-> 0,
   dirty |-> FALSE, valid |-> FALSE, refbit |-> FALSE]

\* BufDesc::Set(file, pageNo): "Set() will leave the pinCnt for the page set to 1"
Set(file, pageNo) ==
  [file |-> file, pageNo |-> pageNo, pinCnt |-> 1,
   dirty |-> FALSE, valid |-> TRUE, refbit |-> TRUE]

\* BufDesc::Clear(): the descriptor is reset to invalid
Clear ==
  [file |-> NULL, pageNo |-> NoPage, pinCnt |-> 0,
   dirty |-> FALSE, valid |-> FALSE, refbit |-> FALSE]

\* ------------------------------------------------------------ page index
\* BufHashTbl::lookup: OK with the frame, or HASHNOTFOUND
HashLookup(ht, file, pageNo) ==
  IF <<file, pageNo>> \in DOMAIN ht /\ ht[<<file, pageNo>>] # NoFrame
    THEN [rc |-> "OK", frameNo |-> ht[<<file, pageNo>>]]
    ELSE [rc |-> "HASHNOTFOUND", frameNo |-> NoFrame]

\* BufHashTbl::insert: fails when the entry exists
HashInsert(ht, file, pageNo, frameNo) ==
  IF <<file, pageNo>> \notin DOMAIN ht \/ ht[<<file, pageNo>>] # NoFrame
    THEN [rc |-> "HASHTBLERROR", ht |-> ht]
    ELSE [rc |-> "OK", ht |-> [ht EXCEPT ![<<file, pageNo>>] = frameNo]]

\* BufHashTbl::remove: fails when the entry is absent
HashRemove(ht, file, pageNo) ==
  IF <<file, pageNo>> \notin DOMAIN ht \/ ht[<<file, pageNo>>] = NoFrame
    THEN [rc |-> "HASHTBLERROR", ht |-> ht]
    ELSE [rc |-> "OK", ht |-> [ht EXCEPT ![<<file, pageNo>>] = NoFrame]]

\* ------------------------------------------------------------- File I/O
IoEvent(kind, file, pageNo) == [kind |-> kind, file |-> file, pageNo |-> pageNo]

\* ---------------------------------------------------------------- allocBuf
\* allocBuf without the test of the pin count
ReplaceableIgnoringPins(desc) == TRUE

\* allocBuf that counts every frame with refbit clear as pinned
ReplaceableNever(desc) == FALSE

\* line 97: a valid frame with refbit clear is taken when nobody pins it
Replaceable(desc) == desc.pinCnt = 0

\* a scan that goes on until it has met more than numBufs pinned frames
ScanContinuesOneMore(numPins) == numPins <= NumBufs

\* line 84: the scan goes on while fewer than numBufs pinned frames were met
ScanContinues(numPins) == numPins < NumBufs

\* lines 84-105: the clock scan; adv counts the advances of the clock hand
RECURSIVE Scan(_, _, _, _)
Scan(bt, hand, numPins, adv) ==
  IF ~ScanContinues(numPins)
    THEN [bt |-> bt, hand |-> hand, numPins |-> numPins, adv |-> adv]
    ELSE LET h == (hand + 1) % NumBufs
             tmpbuf == bt[h]
         IN  IF ~tmpbuf.valid
               THEN [bt |-> bt, hand |-> h, numPins |-> numPins, adv |-> adv + 1]
               ELSE IF ~tmpbuf.refbit
                 THEN IF Replaceable(tmpbuf)
                        THEN [bt |-> bt, hand |-> h, numPins |-> numPins,
                              adv |-> adv + 1]
                        ELSE Scan(bt, h, numPins + 1, adv + 1)
                 ELSE Scan([bt EXCEPT ![h].refbit = FALSE], h, numPins, adv + 1)

\* allocBuf that hands the frame out whether or not the removal of the
\* victim's entry and its write-back succeeded
AllocBufHandsOutAnyway(bt, hand, ht, failAt) ==
  LET s == Scan(bt, hand, 0, 0)
      tmpbuf == s.bt[s.hand]
      rm == HashRemove(ht, tmpbuf.file, tmpbuf.pageNo)
      exceeded == s.numPins >= NumBufs
  IN  [rc |-> IF exceeded THEN "BUFFEREXCEEDED" ELSE "OK",
       frame |-> IF exceeded THEN NoFrame ELSE s.hand,
       victim |-> IF exceeded THEN NoFrame ELSE s.hand,
       bt |-> s.bt, hand |-> s.hand,
       ht |-> IF ~exceeded /\ tmpbuf.valid THEN rm.ht ELSE ht,
       io |-> IF ~exceeded /\ tmpbuf.valid /\ tmpbuf.dirty
                 /\ failAt # "write"
                THEN <<IoEvent("write", tmpbuf.file, tmpbuf.pageNo)>>
                ELSE <<>>]

\* lines 78-130: allocBuf.  failAt names the first File call of the
\* operation that fails ("none": no File call fails)
AllocBuf(bt, hand, ht, failAt) ==
  LET s == Scan(bt, hand, 0, 0)
      tmpbuf == s.bt[s.hand]
      rm == HashRemove(ht, tmpbuf.file, tmpbuf.pageNo)
      base == [rc |-> "OK", frame |-> NoFrame, victim |-> NoFrame,
               bt |-> s.bt, hand |-> s.hand, ht |-> ht, io |-> <<>>]
  IN  IF s.numPins >= NumBufs
        THEN [base EXCEPT !.rc = "BUFFEREXCEEDED"]
        ELSE IF tmpbuf.valid
          THEN IF rm.rc # "OK"
                 THEN [base EXCEPT !.rc = rm.rc, !.victim = s.hand]
                 ELSE IF tmpbuf.dirty
                   THEN IF failAt = "write"
                          THEN [base EXCEPT !.rc = "UNIXERR", !.ht = rm.ht,
                                            !.victim = s.hand]
                          ELSE [base EXCEPT !.frame = s.hand, !.ht = rm.ht,
                                  !.victim = s.hand,
                                  !.io = <<IoEvent("write", tmpbuf.file,
                                                   tmpbuf.pageNo)>>]
                   ELSE [base EXCEPT !.frame = s.hand, !.ht = rm.ht,
                                     !.victim = s.hand]
          ELSE [base EXCEPT !.frame = s.hand, !.victim = s.hand]

\* ------------------------------------------------------------------ Init
\* lines 27-44: the constructor
Init ==
  /\ bufTable = [i \in Frames |-> InitDesc]
  /\ hashTable = [k \in Keys |-> NoFrame]
  /\ clockHand = NumBufs - 1
  /\ fileCalls = <<>>
  /\ calls = 0
  /\ last = [op |-> "init", file |-> NULL, pageNo |-> NoPage, rc |-> "OK",
             victim |-> NoFrame]
  /\ held = [k \in Keys |-> 0]
  /\ debt = [k \in Keys |-> "none"]

\* --------------------------------------------------------- bookkeeping
\* The variables fileCalls, calls, last, held and debt record what the
\* operations did; no operation reads them.
\*   fileCalls: the readPage and writePage calls the last operation made
\*          on its File that succeeded, in order
\*   calls: the number of calls made so far
\*   last : the last call, its arguments, its status and the frame the
\*          clock scan of allocBuf stopped at (victim)
\*   held : per page, successful fetches minus successful unpins
\*   debt : per page, "owed" once unPinPage(.., true) succeeded, then
\*          "once" / "twice" as writePage calls for that page succeed
\* held and debt are kept in the runs of SpecBook only.
Call(op, file, pageNo, rc, victim) ==
  [op |-> op, file |-> file, pageNo |-> pageNo, rc |-> rc, victim |-> victim]

\* pages whose index entry went away between two index states
Dropped(ht1, ht2) == {k \in Keys : ht1[k] # NoFrame /\ ht2[k] = NoFrame}

\* ---------------------------------------------------------------- readPage
\* line 162: the test made on the status of the lookup
LookupFailed(rc) == rc # "OK" \/ rc # "HASHNOTFOUND"

\* lines 156-199.  failAt: the first File call that fails
ReadPageResult(file, pageNo, failAt) ==
  LET lk == HashLookup(hashTable, file, pageNo)
      a == AllocBuf(bufTable, clockHand, hashTable, failAt)
      ins == HashInsert(a.ht, file, pageNo, a.frame)
      same == [rc |-> lk.rc, bt |-> bufTable, hand |-> clockHand,
               ht |-> hashTable, io |-> <<>>, frame |-> NoFrame,
               victim |-> NoFrame]
      miss == [same EXCEPT !.bt = a.bt, !.hand = a.hand, !.ht = a.ht,
                           !.io = a.io, !.victim = a.victim]
  IN  IF LookupFailed(lk.rc) THEN same
      ELSE IF lk.rc = "HASHNOTFOUND"
        THEN IF a.rc # "OK" THEN [miss EXCEPT !.rc = a.rc]
             ELSE IF failAt = "read"
               THEN [miss EXCEPT !.rc = "UNIXERR"]
             ELSE IF ins.rc # "OK"
               THEN [miss EXCEPT !.rc = "HASHTBLERROR",
                       !.io = a.io \o <<IoEvent("read", file, pageNo)>>]
             ELSE [miss EXCEPT !.rc = "OK", !.ht = ins.ht, !.frame = a.frame,
                     !.bt = [a.bt EXCEPT ![a.frame] = Set(file, pageNo)],
                     !.io = a.io \o <<IoEvent("read", file, pageNo)>>]
        ELSE [same EXCEPT !.rc = "OK", !.frame = lk.frameNo,
                !.bt = [bufTable EXCEPT ![lk.frameNo].refbit = TRUE,
                          ![lk.frameNo].pinCnt = bufTable[lk.frameNo].pinCnt + 1]]

ReadPage(file, pageNo, failAt) ==
  \E r \in {ReadPageResult(file, pageNo, failAt)} :
      /\ bufTable' = r.bt
      /\ clockHand' = r.hand
      /\ hashTable' = r.ht
      /\ fileCalls' = r.io
      /\ last' = Call("readPage", file, pageNo, r.rc, r.victim)

\* --------------------------------------------------------------- unPinPage
\* unPinPage without the test of lines 224-226
UnPinPageNoPinTest(file, pageNo, dirty) ==
  LET lk == HashLookup(hashTable, file, pageNo)
      frameno == lk.frameNo
  IN  IF lk.rc # "OK" THEN [rc |-> "HASHNOTFOUND", bt |-> bufTable]
      ELSE [rc |-> "OK",
            bt |-> [bufTable EXCEPT
                      ![frameno].pinCnt = bufTable[frameno].pinCnt - 1,
                      ![frameno].dirty = IF dirty THEN dirty
                                         ELSE bufTable[frameno].dirty]]

\* lines 214-233
UnPinPageResult(file, pageNo, dirty) ==
  LET lk == HashLookup(hashTable, file, pageNo)
      frameno == lk.frameNo
  IN  IF lk.rc # "OK" THEN [rc |-> "HASHNOTFOUND", bt |-> bufTable]
      ELSE IF bufTable[frameno].pinCnt = 0
        THEN [rc |-> "PAGENOTPINNED", bt |-> bufTable]
      ELSE [rc |-> "OK",
            bt |-> [bufTable EXCEPT
                      ![frameno].pinCnt = bufTable[frameno].pinCnt - 1,
                      ![frameno].dirty = IF dirty THEN dirty
                                         ELSE bufTable[frameno].dirty]]

UnPinPage(file, pageNo, dirty) ==
  \E r \in {UnPinPageResult(file, pageNo, dirty)} :
      /\ bufTable' = r.bt
      /\ UNCHANGED <<clockHand, hashTable>>
      /\ fileCalls' = <<>>
      /\ last' = Call("unPinPage", file, pageNo, r.rc, NoFrame)

\* --------------------------------------------------------------- allocPage
\* line 252: file->allocatePage(pageNo).  When it succeeds (allocOK) pageNo
\* is a page number the File did not hold, so one that is not cached; when
\* it fails, pageNo is the value the caller's variable happens to hold
NewPage(ht, file, pageNo, allocOK) ==
  allocOK => ht[<<file, pageNo>>] = NoFrame

\* lines 247-268 (the status of file->allocatePage is not tested)
AllocPageResult(file, pageNo, failAt) ==
  LET a == AllocBuf(bufTable, clockHand, hashTable, failAt)
      ins == HashInsert(a.ht, file, pageNo, a.frame)
      r == [rc |-> a.rc, bt |-> a.bt, hand |-> a.hand, ht |-> a.ht,
            io |-> a.io, frame |-> NoFrame, victim |-> a.victim]
  IN  IF a.rc # "OK" THEN r
      ELSE IF ins.rc # "OK" THEN [r EXCEPT !.rc = "HASHTBLERROR"]
      ELSE [r EXCEPT !.rc = "OK", !.ht = ins.ht, !.frame = a.frame,
              !.bt = [a.bt EXCEPT ![a.frame] = Set(file, pageNo)]]

AllocPage(file, allocOK, pageNo, failAt) ==
  \E r \in {AllocPageResult(file, pageNo, failAt)} :
      /\ NewPage(hashTable, file, pageNo, allocOK)
      /\ bufTable' = r.bt
      /\ clockHand' = r.hand
      /\ hashTable' = r.ht
      /\ fileCalls' = r.io
      /\ last' = Call("allocPage", file, pageNo, r.rc, r.victim)

\* ------------------------------------------------------------- disposePage
\* lines 270-283.  The status of hashTable->remove is not tested; the
\* status of file->disposePage is returned
\* disposePage that only marks the frame of a cached page invalid
DisposePageMarksInvalid(file, pageNo, disposeFails) ==
  LET f == hashTable[<<file, pageNo>>]
      rm == HashRemove(hashTable, file, pageNo)
  IN  [rc |-> IF disposeFails THEN "UNIXERR" ELSE "OK",
       bt |-> IF f # NoFrame THEN [bufTable EXCEPT ![f].valid = FALSE]
                             ELSE bufTable,
       ht |-> rm.ht, frame |-> f]

\* disposePage that leaves the descriptor of a cached page as it is
DisposePageNoClear(file, pageNo, disposeFails) ==
  LET rm == HashRemove(hashTable, file, pageNo)
  IN  [rc |-> IF disposeFails THEN "UNIXERR" ELSE "OK", bt |-> bufTable,
       ht |-> rm.ht, frame |-> hashTable[<<file, pageNo>>]]

DisposePageResult(file, pageNo, disposeFails) ==
  LET lk == HashLookup(hashTable, file, pageNo)
      bt1 == IF lk.rc = "OK"
               THEN [bufTable EXCEPT ![lk.frameNo] = Clear] ELSE bufTable
      rm == HashRemove(hashTable, file, pageNo)
  IN  [rc |-> IF disposeFails THEN "UNIXERR" ELSE "OK", bt |-> bt1, ht |-> rm.ht,
       frame |-> lk.frameNo]

DisposePage(file, pageNo, disposeFails) ==
  \E r \in {DisposePageResult(file, pageNo, disposeFails)} :
      /\ bufTable' = r.bt
      /\ hashTable' = r.ht
      /\ clockHand' = clockHand
      /\ fileCalls' = <<>>
      /\ last' = Call("disposePage", file, pageNo, r.rc, NoFrame)

\* --------------------------------------------------------------- flushFile
\* lines 288-315: the loop over the frames, from frame i on.  writeFailAt:
\* the frame whose writePage call fails (NoFrame: none); the status of
\* hashTable->remove is not tested
RECURSIVE FlushFrom(_, _, _, _, _, _)
FlushFrom(i, bt, ht, io, file, writeFailAt) ==
  LET done == [rc |-> "OK", bt |-> bt, ht |-> ht, io |-> io]
  IN  IF i >= NumBufs THEN done
      ELSE LET tmpbuf == bt[i]
               rm == HashRemove(ht, file, tmpbuf.pageNo)
           IN  IF tmpbuf.valid /\ tmpbuf.file = file
                 THEN IF tmpbuf.pinCnt > 0
                        THEN [done EXCEPT !.rc = "PAGEPINNED"]
                      ELSE IF tmpbuf.dirty /\ i = writeFailAt
                        THEN [done EXCEPT !.rc = "UNIXERR"]
                      ELSE FlushFrom(i + 1,
                             [bt EXCEPT ![i].dirty = FALSE, ![i].file = NULL,
                                        ![i].pageNo = NoPage,
                                        ![i].valid = FALSE],
                             rm.ht,
                             IF tmpbuf.dirty
                               THEN Append(io, IoEvent("write", file,
                                                       tmpbuf.pageNo))
                               ELSE io,
                             file, writeFailAt)
               ELSE IF ~tmpbuf.valid /\ tmpbuf.file = file
                 THEN [done EXCEPT !.rc = "BADBUFFER"]
               ELSE FlushFrom(i + 1, bt, ht, io, file, writeFailAt)

FlushFileResult(file, writeFailAt) ==
  FlushFrom(0, bufTable, hashTable, <<>>, file, writeFailAt)

FlushFile(file, writeFailAt) ==
  \E r \in {FlushFileResult(file, writeFailAt)} :
      /\ bufTable' = r.bt
      /\ hashTable' = r.ht
      /\ UNCHANGED clockHand
      /\ fileCalls' = r.io
      /\ last' = Call("flushFile", file, NoPage, r.rc, NoFrame)

\* ------------------------------------------------------------------- Next
ReadFaults == {"none", "write", "read"}
AllocFaults == {"none", "write"}

\* the frames that are valid for a page of the file
FramesOf(file) ==
  {i \in Frames : bufTable[i].valid /\ bufTable[i].file = file}

\* the frames flushFile(file) makes a writePage call for
DirtyFramesOf(file) == {i \in FramesOf(file) : bufTable[i].dirty}

DoReadPage ==
  \E file \in Files, pageNo \in PageNos, failAt \in ReadFaults :
    ReadPage(file, pageNo, failAt)

DoUnPinPage ==
  \E file \in Files, pageNo \in PageNos, dirty \in BOOLEAN :
    UnPinPage(file, pageNo, dirty)

DoAllocPage ==
  \E file \in Files, pageNo \in PageNos, allocOK \in BOOLEAN,
     failAt \in AllocFaults :
    AllocPage(file, allocOK, pageNo, failAt)

DoDisposePage ==
  \E file \in Files, pageNo \in PageNos, disposeFails \in BOOLEAN :
    DisposePage(file, pageNo, disposeFails)

DoFlushFile ==
  \E file \in Files :
    \E writeFailAt \in DirtyFramesOf(file) \cup {NoFrame} :
      FlushFile(file, writeFailAt)

\* one more call, while the run is shorter than max
Count(max) ==
  /\ calls < max
  /\ calls' = calls + 1

Next ==
  \/ Count(MaxCalls) /\ DoReadPage /\ UNCHANGED <<held, debt>>
  \/ Count(MaxCalls) /\ DoUnPinPage /\ UNCHANGED <<held, debt>>
  \/ Count(MaxCalls) /\ DoAllocPage /\ UNCHANGED <<held, debt>>
  \/ Count(MaxCalls) /\ DoDisposePage /\ UNCHANGED <<held, debt>>
  \/ Count(MaxCalls) /\ DoFlushFile /\ UNCHANGED <<held, debt>>

Spec == Init /\ [][Next]_vars

\* ------------------------------------------------ the runs with the books
\* held after a call on page k that returned rc: a successful fetch adds
\* one (a page that was not cached starts at one), a successful unpin
\* takes one, and a page that leaves the Page Index falls back to zero
HeldAfter(op, k, rc, ht1, ht2) ==
  [k2 \in Keys |->
     IF k2 = k /\ rc = "OK" /\ op = "allocPage" THEN 1
     ELSE IF k2 = k /\ rc = "OK" /\ op = "readPage"
       THEN (IF ht1[k] = NoFrame THEN 1 ELSE held[k] + 1)
     ELSE IF k2 = k /\ rc = "OK" /\ op = "unPinPage" /\ held[k] > 0
       THEN held[k] - 1
     ELSE IF k2 = k /\ op = "disposePage" THEN 0
     ELSE IF k2 \in Dropped(ht1, ht2) THEN 0
     ELSE held[k2]]

\* the number of successful writePage calls for page k among the File
\* calls io
WritesOf(io, k) ==
  Cardinality({n \in DOMAIN io :
                 io[n].kind = "write" /\ <<io[n].file, io[n].pageNo>> = k})

Bump(d) == IF d = "owed" THEN "once" ELSE IF d = "once" THEN "twice" ELSE d

\* debt after the File calls io
Written(d, io) ==
  [k \in Keys |->
     IF WritesOf(io, k) = 0 THEN d[k]
     ELSE IF WritesOf(io, k) = 1 THEN Bump(d[k])
     ELSE Bump(Bump(d[k]))]

BookReadPage ==
  \E file \in Files, pageNo \in PageNos, failAt \in ReadFaults :
    /\ ReadPage(file, pageNo, failAt)
    /\ held' = HeldAfter("readPage", <<file, pageNo>>, last'.rc,
                         hashTable, hashTable')
    /\ debt' = IF last'.rc = "OK" /\ hashTable[<<file, pageNo>>] = NoFrame
                 THEN [Written(debt, fileCalls')
                         EXCEPT ![<<file, pageNo>>] = "none"]
                 ELSE Written(debt, fileCalls')

BookUnPinPage ==
  \E file \in Files, pageNo \in PageNos, dirty \in BOOLEAN :
    /\ UnPinPage(file, pageNo, dirty)
    /\ held' = HeldAfter("unPinPage", <<file, pageNo>>, last'.rc,
                         hashTable, hashTable')
    /\ debt' = IF last'.rc = "OK" /\ dirty
                 THEN [debt EXCEPT ![<<file, pageNo>>] = "owed"] ELSE debt

BookAllocPage ==
  \E file \in Files, pageNo \in PageNos, allocOK \in BOOLEAN,
     failAt \in AllocFaults :
    /\ AllocPage(file, allocOK, pageNo, failAt)
    /\ held' = HeldAfter("allocPage", <<file, pageNo>>, last'.rc,
                         hashTable, hashTable')
    /\ debt' = IF last'.rc = "OK"
                 THEN [Written(debt, fileCalls')
                         EXCEPT ![<<file, pageNo>>] = "none"]
                 ELSE Written(debt, fileCalls')

BookDisposePage ==
  \E file \in Files, pageNo \in PageNos, disposeFails \in BOOLEAN :
    /\ DisposePage(file, pageNo, disposeFails)
    /\ held' = HeldAfter("disposePage", <<file, pageNo>>, last'.rc,
                         hashTable, hashTable')
    /\ debt' = [debt EXCEPT ![<<file, pageNo>>] = "none"]

BookFlushFile ==
  \E file \in Files :
    \E writeFailAt \in DirtyFramesOf(file) \cup {NoFrame} :
      /\ FlushFile(file, writeFailAt)
      /\ held' = HeldAfter("flushFile", <<file, NoPage>>, last'.rc,
                           hashTable, hashTable')
      /\ debt' = Written(debt, fileCalls')

NextBook ==
  \/ Count(MaxCallsBook) /\ BookReadPage
  \/ Count(MaxCallsBook) /\ BookUnPinPage
  \/ Count(MaxCallsBook) /\ BookAllocPage
  \/ Count(MaxCallsBook) /\ BookDisposePage
  \/ Count(MaxCallsBook) /\ BookFlushFile

SpecBook == Init /\ [][NextBook]_vars

\* ------------------------------------- the runs after a failed eviction
\* The state of a pool of three frames after
\*   allocPage(1) -> page 0 in frame 0;  unPinPage(1, 0, TRUE);
\*   allocPage(2) -> page 0 in frame 1;  allocPage(2) -> page 1 in frame 2;
\*   allocPage(1) -> page 1, where allocBuf evicts frame 0 and the
\*                   writePage of its page fails (lines 115-124).
\* Spec reaches this state (StaleReached); SpecStale continues from it.
InitStale ==
  /\ bufTable = [i \in Frames |->
                  IF i = 0 THEN [file |-> 1, pageNo |-> 0, pinCnt |-> 0,
                                 dirty |-> TRUE, valid |-> TRUE,
                                 refbit |-> FALSE]
                  ELSE IF i \in {1, 2}
                    THEN [file |-> 2, pageNo |-> i - 1, pinCnt |-> 1,
                          dirty |-> FALSE, valid |-> TRUE, refbit |-> FALSE]
                  ELSE InitDesc]
  /\ hashTable = [k \in Keys |->
                   IF k = <<2, 0>> THEN 1 ELSE IF k = <<2, 1>> THEN 2
                   ELSE NoFrame]
  /\ clockHand = 0
  /\ fileCalls = <<>>
  /\ calls = 5
  /\ last = Call("allocPage", 1, 1, "UNIXERR", 0)
  /\ held = [k \in Keys |-> 0]
  /\ debt = [k \in Keys |-> "none"]

NextStale ==
  \/ Count(MaxCallsStale) /\ DoReadPage /\ UNCHANGED <<held, debt>>
  \/ Count(MaxCallsStale) /\ DoUnPinPage /\ UNCHANGED <<held, debt>>
  \/ Count(MaxCallsStale) /\ DoAllocPage /\ UNCHANGED <<held, debt>>
  \/ Count(MaxCallsStale) /\ DoDisposePage /\ UNCHANGED <<held, debt>>
  \/ Count(MaxCallsStale) /\ DoFlushFile /\ UNCHANGED <<held, debt>>

SpecStale == InitStale /\ [][NextStale]_vars

\* ------------------------------------------------------------ type check
TypeOK ==
  /\ clockHand \in Frames
  /\ \A i \in Frames : bufTable[i].pinCnt \in Nat
  /\ \A k \in Keys : hashTable[k] \in Frames \cup {NoFrame}

\* =================================================================
\* Properties
\* =================================================================
\* the page is in the Page Index
Cached(ht, file, pageNo) == ht[<<file, pageNo>>] # NoFrame

\* every frame is valid and pinned
AllPinned(bt) == \A i \in Frames : bt[i].valid /\ bt[i].pinCnt > 0

\* ------------------------------------------------------------------ C1
\* C1: the frame the clock replacement policy selects never has
\* pin_count > 0 at the moment it is selected, whatever calls came before.
C1_PinnedNeverSelected ==
  [][last'.victim # NoFrame => bufTable[last'.victim].pinCnt = 0]_vars

\* an allocPage call took a frame after the scan passed over every other
\* frame, all of them valid and pinned (refbit cleared by the scan)
C1_Witness ==
  /\ last.op = "allocPage" /\ last.rc = "OK" /\ last.victim # NoFrame
  /\ \A i \in Frames \ {last.victim} :
       bufTable[i].valid /\ bufTable[i].pinCnt > 0 /\ ~bufTable[i].refbit

\* ------------------------------------------------------------------ C2
\* C2: after every completed operation, failed or not, the valid frames are
\* exactly the frames the Page Index points to, each under its own
\* (file, page number), and no two entries point at the same frame.
C2_IndexBijection ==
  /\ \A i \in Frames :
       bufTable[i].valid =>
         /\ <<bufTable[i].file, bufTable[i].pageNo>> \in Keys
         /\ hashTable[<<bufTable[i].file, bufTable[i].pageNo>>] = i
  /\ \A k \in Keys :
       hashTable[k] # NoFrame =>
         /\ bufTable[hashTable[k]].valid
         /\ <<bufTable[hashTable[k]].file, bufTable[hashTable[k]].pageNo>> = k

\* ------------------------------------------------------------------ C3
\* C3: when no File or Page Index call fails, allocBuf returns
\* BUFFEREXCEEDED exactly when every frame is valid with pin_count > 0, and
\* hands out a frame whenever some frame is invalid or has pin_count = 0.
C3_ExceededIffAllPinned ==
  [][\A file \in Files, pageNo \in PageNos :
       (/\ AllocPage(file, TRUE, pageNo, "none")
        /\ last'.rc # "HASHTBLERROR") =>
         /\ (last'.rc = "BUFFEREXCEEDED") <=> AllPinned(bufTable)
         /\ ~AllPinned(bufTable) => (last'.rc = "OK" /\ last'.victim # NoFrame)
    ]_vars

\* ------------------------------------------------------------------ C4
\* C4: with all frames valid and pinned, readPage on a page that is not
\* cached returns BUFFEREXCEEDED and changes no descriptor and no entry of
\* the Page Index.
C4_ReadPageOutOfFrames ==
  [][\A file \in Files, pageNo \in PageNos, failAt \in ReadFaults :
       (/\ ReadPage(file, pageNo, failAt)
        /\ AllPinned(bufTable)
        /\ ~Cached(hashTable, file, pageNo)) =>
         /\ last'.rc = "BUFFEREXCEEDED"
         /\ bufTable' = bufTable
         /\ hashTable' = hashTable]_vars

\* ------------------------------------------------------------------ C5
\* C5: readPage on a cached page returns OK, makes no File call, sets the
\* refbit of the page's frame and leaves its pin_count one greater.
C5_FetchHitPins ==
  [][\A file \in Files, pageNo \in PageNos, failAt \in ReadFaults :
       (ReadPage(file, pageNo, failAt) /\ Cached(hashTable, file, pageNo)) =>
         LET f == hashTable[<<file, pageNo>>]
         IN  /\ last'.rc = "OK"
             /\ fileCalls' = <<>>
             /\ bufTable'[f].refbit
             /\ bufTable'[f].pinCnt = bufTable[f].pinCnt + 1]_vars

\* ------------------------------------------------------------------ C6
\* C6: readPage on a page that is not cached, with a frame invalid or
\* unpinned and no failing call, returns OK and leaves the page cached in
\* a frame that names it, valid, clean, referenced and pinned once.
C6_FetchMissLoads ==
  [][\A file \in Files, pageNo \in PageNos :
       (/\ ReadPage(file, pageNo, "none")
        /\ last'.rc # "HASHTBLERROR"
        /\ ~Cached(hashTable, file, pageNo)
        /\ ~AllPinned(bufTable)) =>
         /\ last'.rc = "OK"
         /\ Cached(hashTable', file, pageNo)
         /\ bufTable'[hashTable'[<<file, pageNo>>]] = Set(file, pageNo)]_vars

\* ------------------------------------------------------------------ C7
\* C7: unPinPage fails with page-not-found on a page that is not in the
\* Page Index and with page-not-pinned on a cached page with pin_count 0,
\* changing nothing in both cases; otherwise it takes one from the frame's
\* pin_count and changes nothing else but, when asked, the dirty flag.  So
\* pin_count is >= 0 in every frame, always.
UnPinContract(file, pageNo, dirty) ==
  LET k == <<file, pageNo>>
      f == hashTable[k]
  IN  /\ hashTable' = hashTable /\ clockHand' = clockHand
      /\ f = NoFrame => last'.rc = "HASHNOTFOUND" /\ bufTable' = bufTable
      /\ (f # NoFrame /\ bufTable[f].pinCnt = 0) =>
           last'.rc = "PAGENOTPINNED" /\ bufTable' = bufTable
      /\ (f # NoFrame /\ bufTable[f].pinCnt > 0) =>
           /\ last'.rc = "OK"
           /\ bufTable' = [bufTable EXCEPT
                             ![f].pinCnt = bufTable[f].pinCnt - 1,
                             ![f].dirty = bufTable[f].dirty \/ dirty]

PinsNonNegative == \A i \in Frames : bufTable[i].pinCnt >= 0

C7_UnPinPage ==
  /\ []PinsNonNegative
  /\ [][\A file \in Files, pageNo \in PageNos, dirty \in BOOLEAN :
          UnPinPage(file, pageNo, dirty) =>
            UnPinContract(file, pageNo, dirty)]_vars

\* unPinPage took the last pin of a cached page and marked it dirty
C7_Witness ==
  /\ last.op = "unPinPage" /\ last.rc = "OK"
  /\ Cached(hashTable, last.file, last.pageNo)
  /\ bufTable[hashTable[<<last.file, last.pageNo>>]].pinCnt = 0
  /\ bufTable[hashTable[<<last.file, last.pageNo>>]].dirty

\* ------------------------------------------------------------------ C8
\* C8: pin/unpin conservation.  The pin_count of a cached page is the
\* number of successful fetches of it minus the number of successful
\* unpins, so that k fetches followed by k unpins leave pin_count = 0 and
\* only the unpin after those is refused.
C8_PinConservation ==
  \A k \in Keys :
    (/\ hashTable[k] # NoFrame
     /\ bufTable[hashTable[k]].valid
     /\ <<bufTable[hashTable[k]].file, bufTable[hashTable[k]].pageNo>> = k) =>
      bufTable[hashTable[k]].pinCnt = held[k]

\* ------------------------------------------------------------------ C9
\* C9: once unPinPage(f, p, true) has succeeded, page p stays cached and
\* dirty until a flush or an eviction writes it to its file, and it is
\* written once for that dirty period, never twice (a page that is disposed
\* of is owed no write); unPinPage with dirty = false never clears dirty.
DirtyKept ==
  \A k \in Keys :
    /\ debt[k] # "twice"
    /\ debt[k] = "owed" =>
         /\ hashTable[k] # NoFrame
         /\ bufTable[hashTable[k]].valid
         /\ bufTable[hashTable[k]].dirty

C9_DirtyPersistence ==
  /\ []DirtyKept
  /\ [][\A file \in Files, pageNo \in PageNos :
          UnPinPage(file, pageNo, FALSE) =>
            \A i \in Frames : bufTable[i].dirty => bufTable'[i].dirty]_vars

\* ----------------------------------------------------------------- C10
\* C10: flushFile(F) called while a cached page of F is pinned returns
\* PAGEPINNED, writes no page, and leaves every frame of F and the Page
\* Index as they were, whichever frame holds the pinned page.
SomePinned(file) ==
  \E pageNo \in PageNos :
    /\ Cached(hashTable, file, pageNo)
    /\ bufTable[hashTable[<<file, pageNo>>]].valid
    /\ bufTable[hashTable[<<file, pageNo>>]].file = file
    /\ bufTable[hashTable[<<file, pageNo>>]].pinCnt > 0

C10_FlushPinnedChangesNothing ==
  [][\A file \in Files :
       \A writeFailAt \in DirtyFramesOf(file) \cup {NoFrame} :
         (FlushFile(file, writeFailAt) /\ SomePinned(file)) =>
           /\ last'.rc = "PAGEPINNED"
           /\ fileCalls' = <<>>
           /\ \A i \in FramesOf(file) : bufTable'[i] = bufTable[i]
           /\ hashTable' = hashTable]_vars

\* ----------------------------------------------------------------- C11
\* C11: when flushFile(F) returns OK, every page of F that was cached and
\* dirty has been written exactly once, no frame is valid for F, the Page
\* Index holds no entry of F, and the frames and entries of the other
\* files and the clock hand are as they were.
DirtyCached(file) ==
  {pageNo \in PageNos :
     /\ Cached(hashTable, file, pageNo)
     /\ bufTable[hashTable[<<file, pageNo>>]].dirty}

C11_FlushSuccess ==
  [][\A file \in Files :
       \A writeFailAt \in DirtyFramesOf(file) \cup {NoFrame} :
         (FlushFile(file, writeFailAt) /\ last'.rc = "OK") =>
           /\ \A pageNo \in DirtyCached(file) :
                WritesOf(fileCalls', <<file, pageNo>>) = 1
           /\ \A i \in Frames :
                ~(bufTable'[i].valid /\ bufTable'[i].file = file)
           /\ \A pageNo \in PageNos : ~Cached(hashTable', file, pageNo)
           /\ \A i \in Frames :
                (bufTable[i].valid /\ bufTable[i].file # file) =>
                  bufTable'[i] = bufTable[i]
           /\ \A k \in Keys : k[1] # file => hashTable'[k] = hashTable[k]
           /\ clockHand' = clockHand]_vars

\* ----------------------------------------------------------------- C12
\* C12: when the File reserves a new page number, some frame is invalid or
\* unpinned and no call fails, allocPage returns OK and leaves the new page
\* in the frame the replacement policy chose, indexed, valid, clean,
\* referenced and pinned once; the page that frame held before is no
\* longer in the Page Index.
C12_AllocPage ==
  [][\A file \in Files, pageNo \in PageNos :
       (/\ AllocPage(file, TRUE, pageNo, "none")
        /\ last'.rc # "HASHTBLERROR"
        /\ ~AllPinned(bufTable)) =>
         /\ last'.rc = "OK"
         /\ last'.victim # NoFrame
         /\ hashTable'[<<file, pageNo>>] = last'.victim
         /\ bufTable'[last'.victim] = Set(file, pageNo)
         /\ \A k \in Keys \ {<<file, pageNo>>} :
              hashTable'[k] # last'.victim]_vars

\* ----------------------------------------------------------------- C13
\* C13: disposePage resets the frame of a cached page to invalid and
\* removes its Page Index entry without writing the page; cached or not,
\* it asks the File to dispose of the page and returns the File's status;
\* the descriptors of the other frames are unchanged.
C13_DisposePage ==
  [][\A file \in Files, pageNo \in PageNos, disposeFails \in BOOLEAN :
       DisposePage(file, pageNo, disposeFails) =>
         LET f == hashTable[<<file, pageNo>>]
         IN  /\ f # NoFrame => ~bufTable'[f].valid /\ ~bufTable'[f].dirty
             /\ ~Cached(hashTable', file, pageNo)
             /\ fileCalls' = <<>>
             /\ last'.rc = (IF disposeFails THEN "UNIXERR" ELSE "OK")
             /\ \A i \in Frames \ {f} : bufTable'[i] = bufTable[i]
             /\ \A k \in Keys \ {<<file, pageNo>>} :
                  hashTable'[k] = hashTable[k]]_vars

\* the third call disposed of the page in frame 0, the only page cached
C13_Witness ==
  /\ calls = 3 /\ last.op = "disposePage" /\ last.rc = "OK"
  /\ bufTable[0] = Clear
  /\ \A i \in Frames \ {0} : bufTable[i] = InitDesc
  /\ \A k \in Keys : hashTable[k] = NoFrame

\* ----------------------------------------------------------------- C14
\* C14: an operation in which a File call or a Page Index call failed
\* returns a failure: allocPage does not return OK when the File's
\* allocatePage failed, and disposePage does not return OK when the Page
\* Index had no entry to remove.
C14_ErrorPropagation ==
  /\ [][\A file \in Files, pageNo \in PageNos, failAt \in AllocFaults :
          AllocPage(file, FALSE, pageNo, failAt) => last'.rc # "OK"]_vars
  /\ [][\A file \in Files, pageNo \in PageNos, disposeFails \in BOOLEAN :
          (/\ DisposePage(file, pageNo, disposeFails)
           /\ HashRemove(hashTable, file, pageNo).rc # "OK") =>
            last'.rc # "OK"]_vars

\* ----------------------------------------------------------------- C15
\* C15: on a fresh pool of three frames, readPage A lands in frame 0
\* pinned once, readPage B lands in frame 1 pinned once, unPinPage(A, TRUE)
\* leaves A unpinned and dirty, and readPage C then lands in frame 0, with
\* A out of the Page Index and A written before C is read.
FreshPool ==
  /\ calls = 0
  /\ \A i \in Frames : ~bufTable[i].valid

OnlyIn(file, pageNo, i, bt, ht) ==
  /\ ht[<<file, pageNo>>] = i
  /\ bt[i].valid /\ bt[i].file = file /\ bt[i].pageNo = pageNo

\* A pinned once in frame 0, the other frames invalid
AfterA(fileA, pageA) ==
  /\ calls = 1
  /\ bufTable[0] = Set(fileA, pageA) /\ hashTable[<<fileA, pageA>>] = 0
  /\ \A i \in Frames \ {0} : ~bufTable[i].valid

\* A unpinned and dirty in frame 0, B pinned once in frame 1
AfterUnpinA(fileA, pageA) ==
  /\ calls = 3 /\ last.op = "unPinPage" /\ last.rc = "OK"
  /\ OnlyIn(fileA, pageA, 0, bufTable, hashTable)
  /\ bufTable[0].pinCnt = 0 /\ bufTable[0].dirty
  /\ bufTable[1].valid /\ bufTable[1].pinCnt = 1
  /\ \A i \in Frames \ {0, 1} : ~bufTable[i].valid

C15_ThreeFrameScenario ==
  [][\A file \in Files, pageNo \in PageNos :
       ReadPage(file, pageNo, "none") =>
         /\ FreshPool =>
              /\ last'.rc = "OK"
              /\ bufTable'[0] = Set(file, pageNo)
              /\ hashTable'[<<file, pageNo>>] = 0
         /\ \A fileA \in Files, pageA \in PageNos :
              (AfterA(fileA, pageA) /\ <<fileA, pageA>> # <<file, pageNo>>) =>
                /\ last'.rc = "OK"
                /\ bufTable'[1] = Set(file, pageNo)
                /\ bufTable'[0] = bufTable[0]
         /\ \A fileA \in Files, pageA \in PageNos :
              (/\ AfterUnpinA(fileA, pageA)
               /\ ~Cached(hashTable, file, pageNo)) =>
                /\ last'.rc = "OK"
                /\ OnlyIn(file, pageNo, 0, bufTable', hashTable')
                /\ ~Cached(hashTable', fileA, pageA)
                /\ fileCalls' = <<IoEvent("write", fileA, pageA),
                                  IoEvent("read", file, pageNo)>>]_vars

\* ----------------------------------------------------------------- C16
\* C16: clock fairness.  A replacement call made while some frame is valid
\* with refbit clear and pinCnt 0 does not return BUFFEREXCEEDED and does
\* not move the clock hand past that frame without selecting it: it
\* selects that frame or leaves the hand strictly nearer to it; no other
\* operation moves the hand.  The hand is at most NumBufs advances away,
\* so the page is out no later than the NumBufs-th replacement call.
Evictable(desc) == desc.valid /\ ~desc.refbit /\ desc.pinCnt = 0

\* the advances that take the clock hand from frame hand to frame i
Dist(hand, i) == ((i - hand - 1) % NumBufs) + 1

C16_ClockFairness ==
  [][/\ last'.op # "allocPage" => clockHand' = clockHand
     /\ last'.op = "allocPage" =>
          \A i \in Frames :
            Evictable(bufTable[i]) =>
              /\ last'.rc # "BUFFEREXCEEDED"
              /\ last'.victim # NoFrame
              /\ \/ last'.victim = i
                 \/ /\ Dist(clockHand', i) < Dist(clockHand, i)
                    /\ bufTable'[i] = bufTable[i]]_vars

\* allocPage took the frame of a valid page, unpinned and with refbit
\* clear when the clock hand reached it, and wrote the page back
C16_Witness ==
  /\ last.op = "allocPage" /\ last.rc = "OK" /\ last.victim # NoFrame
  /\ Len(fileCalls) = 1 /\ fileCalls[1].kind = "write"
  /\ \E i \in Frames \ {last.victim} :
       bufTable[i].valid /\ bufTable[i].pinCnt > 0

\* ----------------------------------------------------------------- C17
\* C17: when allocBuf selects a valid frame it removes the frame's Page
\* Index entry first and then, if the frame is dirty, writes the page
\* back, both before it returns the frame; when the removal fails nothing
\* is written, when the removal or the write fails allocBuf returns an
\* error and no frame, and allocPage then returns that error without
\* indexing, reading into or re-initialising the frame.
EvictionProtocol(a, failAt) ==
  LET v == a.victim
      old == bufTable[v]
      k == <<old.file, old.pageNo>>
      indexed == k \in Keys /\ hashTable[k] # NoFrame
  IN  (v # NoFrame /\ old.valid) =>
        /\ ~indexed => a.rc = "HASHTBLERROR" /\ a.io = <<>>
        /\ (indexed /\ old.dirty /\ failAt = "write") =>
             a.rc = "UNIXERR" /\ a.ht[k] = NoFrame /\ a.io = <<>>
        /\ a.rc = "OK" =>
             /\ a.frame = v /\ a.ht[k] = NoFrame
             /\ a.io = (IF old.dirty
                          THEN <<IoEvent("write", old.file, old.pageNo)>>
                          ELSE <<>>)
        /\ a.rc # "OK" =>
             /\ a.frame = NoFrame
             /\ last'.rc = a.rc
             /\ bufTable'[v] = [old EXCEPT !.refbit = FALSE]
             /\ hashTable' = a.ht /\ \A k2 \in Keys : hashTable'[k2] # v
             /\ fileCalls' = <<>>

C17_EvictionProtocol ==
  [][\A file \in Files, pageNo \in PageNos, failAt \in AllocFaults :
       AllocPage(file, FALSE, pageNo, failAt) =>
         EvictionProtocol(AllocBuf(bufTable, clockHand, hashTable, failAt),
                          failAt)]_vars

\* allocPage failed with UNIXERR: the write-back of the dirty victim
\* failed after its entry was removed, and the frame was not handed out
C17_Witness ==
  /\ last.op = "allocPage" /\ last.rc = "UNIXERR" /\ last.victim # NoFrame
  /\ bufTable[last.victim].valid /\ bufTable[last.victim].dirty
  /\ hashTable[<<bufTable[last.victim].file,
                 bufTable[last.victim].pageNo>>] = NoFrame

\* ----------------------------------------------------------------- C18
\* C18: in every reachable state the clock hand is a frame number, and a
\* call of allocBuf from that state ends its scan after at least one and
\* at most 2 * NumBufs advances of the clock hand, the hand still a frame
\* number, with at most NumBufs pinned frames counted.
C18_ScanTerminates ==
  /\ clockHand \in Frames
  /\ Scan(bufTable, clockHand, 0, 0).adv \in 1 .. (2 * NumBufs)
  /\ Scan(bufTable, clockHand, 0, 0).hand \in Frames
  /\ Scan(bufTable, clockHand, 0, 0).numPins \in 0 .. NumBufs

\* NumBufs calls of allocPage filled the pool and the next one found every
\* frame pinned with its refbit set: its scan cleared NumBufs refbits and
\* counted NumBufs pinned frames, 2 * NumBufs advances, and came back to
\* where it started
C18_Witness ==
  /\ calls = NumBufs + 1
  /\ last.op = "allocPage" /\ last.rc = "BUFFEREXCEEDED"
  /\ clockHand = NumBufs - 1
  /\ \A i \in Frames :
       bufTable[i].valid /\ ~bufTable[i].refbit /\ bufTable[i].pinCnt > 0

\* ----------------------------------------------------------------- C19
\* C19: a frame that is valid and pinned stays valid for the same file
\* and page; no operation resets its pin count or gives it to another
\* page, and only unPinPage makes its pin count smaller.
C19_PinnedFrameKept ==
  [][\A i \in Frames :
       (bufTable[i].valid /\ bufTable[i].pinCnt > 0) =>
         /\ bufTable'[i].valid
         /\ bufTable'[i].file = bufTable[i].file
         /\ bufTable'[i].pageNo = bufTable[i].pageNo
         /\ \/ bufTable'[i].pinCnt >= bufTable[i].pinCnt
            \/ /\ last'.op = "unPinPage"
               /\ bufTable'[i].pinCnt = bufTable[i].pinCnt - 1]_vars

\* ----------------------------------------------------------------- C20
\* C20: in every reachable state, after failed operations too, a dirty
\* frame is valid and an invalid frame has pin count 0.
C20_DirtyValidInvalidUnpinned ==
  \A i \in Frames :
    /\ bufTable[i].dirty => bufTable[i].valid
    /\ ~bufTable[i].valid => bufTable[i].pinCnt = 0

\* flushFile wrote a dirty page back and left its frame invalid, clean and
\* unpinned, while a frame of another file stays valid and pinned
C20_Witness ==
  /\ last.op = "flushFile" /\ last.rc = "OK" /\ Len(fileCalls) = 1
  /\ \E i \in Frames :
       /\ ~bufTable[i].valid /\ bufTable[i].pageNo = NoPage
       /\ ~bufTable[i].dirty /\ bufTable[i].pinCnt = 0
  /\ \E i \in Frames :
       /\ bufTable[i].valid /\ bufTable[i].pinCnt > 0

\* the run of Spec has reached the state SpecStale starts in
StaleReached == InitStale

====
